---- MODULE Spec2Model ----
(***************************************************************************)
(* EquipSense backend, auth_app: the OTP-gated registration and password   *)
(* reset flows over the OTPRecord table (the Verification Ledger) and the  *)
(* User / UserProfile tables (the Identity Store).                         *)
(*                                                                         *)
(* Time is counted in seconds.  Every request handler is one atomic step:  *)
(* the requests of this specification are served one at a time.  A handler *)
(* H is modelled by H_result, the tables it leaves and the response it     *)
(* returns as a function of the tables and the request, and by the action  *)
(* H, which stores those tables.                                           *)
(***************************************************************************)
EXTENDS Integers, Sequences, FiniteSets, Bags, TLC

VARIABLES
    otp_records,      \* table otp_records, in insertion (id, created_at) order
    users,            \* table auth_user, in insertion (id) order
    profiles,         \* table user_profiles, in insertion order
    now,              \* timezone.now(), in seconds
    nulls_first,      \* how the database sorts NULL under ORDER BY ... DESC
    failed_calls,     \* history: failed verify calls on each unverified OTP record
    consumed,         \* history: the (email, purpose) pairs with a successful
                      \* verify since their last issue
    login_attempts,   \* table login_attempts, as the bag of its rows (no handler
                      \* reads their ids or their order)
    issuers,          \* the create_otp calls in flight, by worker
    creators,         \* the create_password calls in flight, by worker
    compared,         \* history: the bag of OTP records (ids) a verify call has
                      \* compared a code with, one copy per call
    verifiers,        \* the verify_otp calls in flight, by worker
    logins,           \* the user_login calls in flight, by worker
    federated         \* the google_auth calls in flight, by worker

vars == <<otp_records, users, profiles, now, nulls_first, compared, verifiers,
          logins, federated, failed_calls, consumed,
          login_attempts, issuers, creators>>

----------------------------------------------------------------------------
(* Bounds of the model and the inputs requests are drawn from. *)

MaxOtp == 2
MaxTime == 1200
TickStep == 600

Emails == {"a@x.com"}
Usernames == {"alice"}
Codes == {"111111", "222222"}
Purposes == {"registration", "password_reset"}
StrongPasswords == {"Str0ng!Pass", "N3w!Secret"}
CreatePasswords == {"Str0ng!Pass", "weak"}
ResetPasswords == {"N3w!Secret", "weak"}

----------------------------------------------------------------------------
(* Program constants. *)

NULL == -1
max_attempts == 5
REGISTRATION_VALIDITY_MINUTES == 5
RESET_VALIDITY_MINUTES == 10
RESET_THROTTLE_SECONDS == 30
RESET_SESSION_MINUTES == 15

Minutes(m) == m * 60

----------------------------------------------------------------------------
(* OTPRecord: the model methods. *)

\* Faulty variant: the expiry check lost
is_expired_never(r) == FALSE

is_expired(r) == now > r.expires_at

\* Faulty variant: the attempt ceiling lost
is_valid_no_ceiling(r) == ~r.is_verified /\ ~is_expired(r)

is_valid(r) == ~r.is_verified /\ ~is_expired(r) /\ r.attempts < max_attempts

\* Faulty variant: a matching code is accepted but the record is not marked as used
verify_not_marked(r, otp_code) ==
    LET r1 == [r EXCEPT !.attempts = r.attempts + 1] IN
    IF ~is_valid(r1)
    THEN [saved |-> FALSE, rec |-> r1, success |-> FALSE,
          message |-> "expired_or_max_attempts"]
    ELSE IF r1.otp_code = otp_code
    THEN [saved |-> TRUE, rec |-> r1, success |-> TRUE, message |-> "verified"]
    ELSE [saved |-> TRUE, rec |-> r1, success |-> FALSE,
          message |-> "invalid_otp"]

\* OTPRecord.verify: the record as left in memory, whether it was saved, and
\* the (success, message) pair returned.
verify(r, otp_code) ==
    LET r1 == [r EXCEPT !.attempts = r.attempts + 1] IN
    IF ~is_valid(r1)
    THEN [saved |-> FALSE, rec |-> r1, success |-> FALSE,
          message |-> "expired_or_max_attempts"]
    ELSE IF r1.otp_code = otp_code
    THEN [saved |-> TRUE,
          rec |-> [r1 EXCEPT !.is_verified = TRUE, !.verified_at = now],
          success |-> TRUE, message |-> "verified"]
    ELSE [saved |-> TRUE, rec |-> r1, success |-> FALSE,
          message |-> "invalid_otp"]

\* The queryset filter(email, purpose, is_verified=False).update(is_verified=True)
SupersedeUnverified(recs, email, purpose) ==
    [i \in DOMAIN recs |->
        IF recs[i].email = email /\ recs[i].purpose = purpose /\ ~recs[i].is_verified
        THEN [recs[i] EXCEPT !.is_verified = TRUE]
        ELSE recs[i]]

\* The staged user data a record is created with (**extra_data of create_otp)
ExtraData(temp_username, temp_first_name, temp_last_name) ==
    [temp_username |-> temp_username, temp_first_name |-> temp_first_name,
     temp_last_name |-> temp_last_name]

\* The first and last name that come with a username, in the send-otp bodies
\* and the accounts of the model
FirstNames == [u \in {"alice", "bob"} |-> IF u = "alice" THEN "Alice" ELSE "Bob"]
LastNames == [u \in {"alice", "bob"} |-> IF u = "alice" THEN "Liddell" ELSE "Builder"]

\* Faulty variant: the earlier records of the pair are not invalidated
create_otp_no_supersede(recs, email, purpose, validity_minutes, code, extra_data) ==
    Append(recs,
           [email |-> email, otp_code |-> code, purpose |-> purpose,
            is_verified |-> FALSE, attempts |-> 0,
            created_at |-> now, expires_at |-> now + Minutes(validity_minutes),
            verified_at |-> NULL, temp_username |-> extra_data.temp_username,
            temp_first_name |-> extra_data.temp_first_name,
            temp_last_name |-> extra_data.temp_last_name])

\* OTPRecord.create_otp: the table after the call; the new record is the last.
create_otp(recs, email, purpose, validity_minutes, code, extra_data) ==
    Append(SupersedeUnverified(recs, email, purpose),
           [email |-> email, otp_code |-> code, purpose |-> purpose,
            is_verified |-> FALSE, attempts |-> 0,
            created_at |-> now, expires_at |-> now + Minutes(validity_minutes),
            verified_at |-> NULL, temp_username |-> extra_data.temp_username,
            temp_first_name |-> extra_data.temp_first_name,
            temp_last_name |-> extra_data.temp_last_name])

----------------------------------------------------------------------------
(* Queries of the views. *)

Max(S) == CHOOSE x \in S : \A y \in S : y <= x
Min(S) == CHOOSE x \in S : \A y \in S : x <= y

OtpIds(email, purpose) ==
    {i \in DOMAIN otp_records :
        otp_records[i].email = email /\ otp_records[i].purpose = purpose}

UnverifiedIds(email, purpose) ==
    {i \in OtpIds(email, purpose) : ~otp_records[i].is_verified}

VerifiedIds(email, purpose) ==
    {i \in OtpIds(email, purpose) : otp_records[i].is_verified}

\* Faulty variant: the is_verified=False filter lost
LatestUnfiltered(email, purpose) ==
    IF OtpIds(email, purpose) = {} THEN 0 ELSE Max(OtpIds(email, purpose))

\* Faulty variant: the is_verified=False filter lost and the order reversed
OldestUnfiltered(email, purpose) ==
    IF OtpIds(email, purpose) = {} THEN 0 ELSE Min(OtpIds(email, purpose))

\* filter(email, purpose, is_verified=False).order_by('-created_at').first();
\* 0 stands for None.  Rows are inserted one request at a time, so the order of
\* created_at is the order of insertion.
LatestUnverified(email, purpose) ==
    IF UnverifiedIds(email, purpose) = {} THEN 0
    ELSE Max(UnverifiedIds(email, purpose))

\* filter(email, purpose).order_by('-created_at').first()
LatestAny(email, purpose) ==
    IF OtpIds(email, purpose) = {} THEN 0 ELSE Max(OtpIds(email, purpose))

EmailExists(email) == \E i \in DOMAIN users : users[i].email = email
UsernameExists(username) == \E i \in DOMAIN users : users[i].username = username

----------------------------------------------------------------------------
(* History variables. *)

\* One more failed verify call on record i (counted up to max_attempts).
CountFailure(f, i) == [f EXCEPT ![i] = IF @ < max_attempts THEN @ + 1 ELSE @]

\* Failures are counted on records a verify call can still find.
LiveFailures(f, recs) ==
    [i \in DOMAIN recs |-> IF recs[i].is_verified \/ i \notin DOMAIN f THEN 0 ELSE f[i]]

----------------------------------------------------------------------------
(* Requests served at the same time: each worker serves one request. *)

Workers == {1, 2}

\* A worker with no request in hand
Idle == [pc |-> "idle"]

----------------------------------------------------------------------------
Init ==
    /\ otp_records = <<>>
    /\ users = <<>>
    /\ profiles = <<>>
    /\ now = 0
    /\ nulls_first \in BOOLEAN
    /\ compared = EmptyBag
    /\ verifiers = [w \in Workers |-> Idle]
    /\ logins = [w \in Workers |-> Idle]
    /\ federated = [w \in Workers |-> Idle]
    /\ failed_calls = <<>>
    /\ consumed = {}
    /\ login_attempts = EmptyBag
    /\ issuers = [w \in Workers |-> Idle]
    /\ creators = [w \in Workers |-> Idle]

\* Time passes between requests.
Tick ==
    /\ now + TickStep <= MaxTime
    /\ now' = now + TickStep
    /\ UNCHANGED <<otp_records, users, profiles, nulls_first, compared,
                   verifiers, logins, federated, failed_calls, consumed,
                   login_attempts, issuers, creators>>

\* An issue of a new record for (email, purpose) stored, with the histories.
StoreIssue(recs, email, purpose) ==
    /\ Len(otp_records) < MaxOtp
    /\ otp_records' = recs
    /\ failed_calls' = LiveFailures(failed_calls, recs)
    /\ consumed' = consumed \ {<<email, purpose>>}
    /\ UNCHANGED <<users, profiles, now, nulls_first, compared, verifiers,
                   logins, federated, login_attempts, issuers, creators>>

\* POST send-otp with a valid body.  delivered: whether the OTP service
\* accepted the message; it decides the response alone, the record stays
\* either way.
send_otp_result(username, email, purpose, code, delivered) ==
    IF EmailExists(email)
    THEN [otp_records |-> otp_records, outcome |-> "email_registered"]
    ELSE [otp_records |-> create_otp(otp_records, email, purpose,
                                     REGISTRATION_VALIDITY_MINUTES, code,
                                     ExtraData(username, FirstNames[username],
                                               LastNames[username])),
          outcome |-> IF delivered THEN "sent" ELSE "send_failed"]

send_otp(username, email, purpose, code) ==
    LET res == send_otp_result(username, email, purpose, code, TRUE) IN
    IF res.outcome = "email_registered" THEN UNCHANGED vars
    ELSE StoreIssue(res.otp_records, email, purpose)

\* Faulty variant: the staged data of the first record of the pair is reused
resend_otp_result_first_record(email, purpose, code, delivered) ==
    IF OtpIds(email, purpose) = {}
    THEN [otp_records |-> otp_records, outcome |-> "no_previous_otp"]
    ELSE LET prev_otp == otp_records[Min(OtpIds(email, purpose))] IN
         [otp_records |-> create_otp(otp_records, email, purpose,
                              REGISTRATION_VALIDITY_MINUTES, code,
                              ExtraData(prev_otp.temp_username,
                                        prev_otp.temp_first_name,
                                        prev_otp.temp_last_name)),
          outcome |-> IF delivered THEN "sent" ELSE "send_failed"]

\* POST resend-otp: the staged user data of the most recent record is reused.
resend_otp_result(email, purpose, code, delivered) ==
    IF LatestAny(email, purpose) = 0
    THEN [otp_records |-> otp_records, outcome |-> "no_previous_otp"]
    ELSE LET prev_otp == otp_records[LatestAny(email, purpose)] IN
         [otp_records |-> create_otp(otp_records, email, purpose,
                              REGISTRATION_VALIDITY_MINUTES, code,
                              ExtraData(prev_otp.temp_username,
                                        prev_otp.temp_first_name,
                                        prev_otp.temp_last_name)),
          outcome |-> IF delivered THEN "sent" ELSE "send_failed"]

resend_otp(email, purpose, code) ==
    LET res == resend_otp_result(email, purpose, code, TRUE) IN
    IF res.outcome = "no_previous_otp" THEN UNCHANGED vars
    ELSE StoreIssue(res.otp_records, email, purpose)

\* The table and the response after otp_record.verify(otp_code) on record i.
VerifyRecord(i, otp_code) ==
    LET v == verify(otp_records[i], otp_code) IN
    [otp_records |-> IF v.saved THEN [otp_records EXCEPT ![i] = v.rec]
                     ELSE otp_records,
     rec |-> i, success |-> v.success, outcome |-> v.message,
     remaining |-> max_attempts - v.rec.attempts]

NotFound ==
    [otp_records |-> otp_records, rec |-> 0, success |-> FALSE,
     outcome |-> "not_found", remaining |-> 0]

\* A verify response stored, with the histories.
StoreVerify(res, email, purpose) ==
    /\ otp_records' = res.otp_records
    /\ failed_calls' =
          LiveFailures(IF res.rec # 0 /\ ~res.success
                       THEN CountFailure(failed_calls, res.rec) ELSE failed_calls,
                       res.otp_records)
    /\ consumed' = IF res.success THEN consumed \cup {<<email, purpose>>} ELSE consumed
    /\ UNCHANGED <<users, profiles, now, nulls_first, compared, verifiers,
                   logins, federated, login_attempts, issuers, creators>>

\* POST verify-otp
verify_otp_result(email, purpose, otp_code) ==
    IF LatestUnverified(email, purpose) = 0 THEN NotFound
    ELSE VerifyRecord(LatestUnverified(email, purpose), otp_code)

verify_otp(email, purpose, otp_code) ==
    LET res == verify_otp_result(email, purpose, otp_code) IN
    StoreVerify(res, email, purpose)

\* POST verify-reset-otp
verify_reset_otp_result(email, otp_code) ==
    LET i == LatestUnverified(email, "password_reset") IN
    IF i = 0 THEN NotFound
    ELSE IF is_expired(otp_records[i])
    THEN [otp_records |-> otp_records, rec |-> i, success |-> FALSE,
          outcome |-> "otp_expired", remaining |-> 0]
    ELSE IF otp_records[i].attempts >= max_attempts
    THEN [otp_records |-> otp_records, rec |-> i, success |-> FALSE,
          outcome |-> "max_attempts_exceeded", remaining |-> 0]
    ELSE VerifyRecord(i, otp_code)

verify_reset_otp(email, otp_code) ==
    LET res == verify_reset_otp_result(email, otp_code) IN
    StoreVerify(res, email, "password_reset")

\* The rows .order_by('-verified_at').first() may return among the verified
\* records of (email, purpose); {} when there is none.  Where NULL sorts is the
\* database's choice (nulls_first), and the order among rows with a NULL
\* verified_at is not determined.  Records verified at the same model time were
\* verified in the order of their creation.
FirstByVerifiedAtDesc(email, purpose) ==
    LET V == VerifiedIds(email, purpose)
        Nulls == {i \in V : otp_records[i].verified_at = NULL}
        Dated == V \ Nulls
        Newest == {i \in Dated : \A j \in Dated :
                      \/ otp_records[j].verified_at < otp_records[i].verified_at
                      \/ /\ otp_records[j].verified_at = otp_records[i].verified_at
                         /\ j <= i}
    IN  IF nulls_first
        THEN (IF Nulls # {} THEN Nulls ELSE Newest)
        ELSE (IF Dated # {} THEN Newest ELSE Nulls)

\* NULL in a column that holds no timestamp
None == "None"

\* User.objects.create_user: a row of auth_user with the defaults of the model
create_user(username, email, password) ==
    [username |-> username, email |-> email, password |-> password,
     is_staff |-> FALSE, is_superuser |-> FALSE]

\* UserProfile.objects.create(user=..., is_email_verified=...): a row of
\* user_profiles with the defaults of the model
NewProfile(user, is_email_verified) ==
    [user |-> user, is_email_verified |-> is_email_verified,
     is_admin_user |-> FALSE, google_id |-> None, last_login_ip |-> None,
     login_count |-> 0]

\* validate_password and the custom strength checks, on the passwords of the model
PasswordIsStrong(password) == password \in StrongPasswords

\* POST create-password; r is the row the query of the verified record returns
\* (0 when FirstByVerifiedAtDesc is empty).
create_password_result(email, password, confirm_password, r) ==
    LET same == [users |-> users, profiles |-> profiles] IN
    IF ~PasswordIsStrong(password)
    THEN same @@ [outcome |-> "weak_password"]
    ELSE IF password # confirm_password
    THEN same @@ [outcome |-> "password_mismatch"]
    ELSE IF FirstByVerifiedAtDesc(email, "registration") = {}
    THEN same @@ [outcome |-> "email_not_verified"]
    ELSE IF UsernameExists(otp_records[r].temp_username)
    THEN \* IntegrityError on auth_user.username: the transaction rolls back
         same @@ [outcome |-> "error"]
    ELSE [users |-> Append(users, create_user(otp_records[r].temp_username,
                                              email, password)),
          profiles |-> Append(profiles, NewProfile(Len(users) + 1, TRUE)),
          outcome |-> "created"]

\* The rows a query that may return any of S returns, 0 when S is empty.
FirstOf(S) == IF S = {} THEN {0} ELSE S

create_password(email, password, confirm_password) ==
    \E r \in FirstOf(FirstByVerifiedAtDesc(email, "registration")) :
        LET res == create_password_result(email, password, confirm_password, r) IN
        /\ users' = res.users
        /\ profiles' = res.profiles
        /\ UNCHANGED <<otp_records, now, nulls_first, compared, verifiers,
                       logins, federated, failed_calls, consumed,
                       login_attempts, issuers, creators>>

\* User.objects.filter(email=...) or filter(username=...), .first(): the row with
\* the lowest id, 0 for None.
FindUser(identifier) ==
    LET M == {i \in DOMAIN users :
                 IF identifier \in Emails THEN users[i].email = identifier
                 ELSE users[i].username = identifier}
    IN  IF M = {} THEN 0 ELSE Min(M)

\* hasattr(user, 'profile') and user.profile.is_email_verified
HasVerifiedProfile(u) ==
    \E k \in DOMAIN profiles : profiles[k].user = u /\ profiles[k].is_email_verified

\* Faulty variant: the re-request throttle lost
RecentResetOtpNever(email) == FALSE

\* filter(email, purpose='password_reset', created_at__gte=now - 30 s).first()
RecentResetOtp(email) ==
    \E i \in OtpIds(email, "password_reset") :
        otp_records[i].created_at >= now - RESET_THROTTLE_SECONDS

\* POST request-password-reset.  The call of send_otp_to_service passes keyword
\* arguments the function does not take, so once the record is created the
\* handler ends in its except branch.
request_password_reset_result(identifier, code) ==
    LET u == FindUser(identifier) IN
    IF u = 0
    THEN [otp_records |-> otp_records, outcome |-> "no_account"]
    ELSE IF ~HasVerifiedProfile(u)
    THEN [otp_records |-> otp_records, outcome |-> "email_not_verified"]
    ELSE IF RecentResetOtp(users[u].email)
    THEN [otp_records |-> otp_records, outcome |-> "too_soon"]
    ELSE [otp_records |-> create_otp(otp_records, users[u].email, "password_reset",
                                     RESET_VALIDITY_MINUTES, code,
                                     ExtraData(users[u].username,
                                               FirstNames[users[u].username],
                                               LastNames[users[u].username])),
          outcome |-> "error"]

request_password_reset(identifier, code) ==
    LET res == request_password_reset_result(identifier, code) IN
    IF res.otp_records = otp_records THEN UNCHANGED vars
    ELSE StoreIssue(res.otp_records, users[FindUser(identifier)].email,
                    "password_reset")

\* Faulty variant: the age of the verification is not looked at
ResetSessionNeverExpires(rec) == FALSE

\* timezone.now() - otp.verified_at > timedelta(minutes=15)
ResetSessionExpired(rec) == now - rec.verified_at > Minutes(RESET_SESSION_MINUTES)

\* POST reset-password; r is the row the query of the verified record returns
\* (0 when FirstByVerifiedAtDesc is empty).
reset_password_result(email, new_password, confirm_password, r) ==
    LET same == [users |-> users, otp_records |-> otp_records] IN
    IF ~PasswordIsStrong(new_password)
    THEN same @@ [outcome |-> "weak_password"]
    ELSE IF new_password # confirm_password
    THEN same @@ [outcome |-> "password_mismatch"]
    ELSE IF FirstByVerifiedAtDesc(email, "password_reset") = {}
    THEN same @@ [outcome |-> "reset_not_verified"]
    ELSE IF otp_records[r].verified_at = NULL
    THEN \* timezone.now() - None raises TypeError inside serializer.is_valid()
         same @@ [outcome |-> "error"]
    ELSE IF ResetSessionExpired(otp_records[r])
    THEN same @@ [outcome |-> "session_expired"]
    ELSE IF FindUser(email) = 0
    THEN same @@ [outcome |-> "user_not_found"]
    ELSE [users |-> [users EXCEPT ![FindUser(email)].password = new_password],
          otp_records |->
              [i \in DOMAIN otp_records |->
                  IF /\ otp_records[i].email = email
                     /\ otp_records[i].purpose = "password_reset"
                  THEN [otp_records[i] EXCEPT !.is_verified = TRUE]
                  ELSE otp_records[i]],
          outcome |-> "reset_ok"]

reset_password(email, new_password, confirm_password) ==
    \E r \in FirstOf(FirstByVerifiedAtDesc(email, "password_reset")) :
        LET res == reset_password_result(email, new_password, confirm_password, r) IN
        /\ users' = res.users
        /\ otp_records' = res.otp_records
        /\ failed_calls' = LiveFailures(failed_calls, res.otp_records)
        /\ UNCHANGED <<profiles, now, nulls_first, compared, verifiers,
                       logins, federated, consumed, login_attempts, issuers,
                       creators>>

----------------------------------------------------------------------------
Next ==
    \/ Tick
    \/ \E u \in Usernames, e \in Emails, p \in Purposes, c \in Codes :
          send_otp(u, e, p, c)
    \/ \E e \in Emails, p \in Purposes, c \in Codes : resend_otp(e, p, c)
    \/ \E e \in Emails, p \in Purposes, c \in Codes : verify_otp(e, p, c)
    \/ \E e \in Emails, c \in Codes : verify_reset_otp(e, c)
    \/ \E e \in Emails, pw \in CreatePasswords, cpw \in CreatePasswords :
          create_password(e, pw, cpw)
    \/ \E id \in Emails \cup Usernames, c \in Codes : request_password_reset(id, c)
    \/ \E e \in Emails, pw \in ResetPasswords, cpw \in ResetPasswords :
          reset_password(e, pw, cpw)

Spec == Init /\ [][Next]_vars

----------------------------------------------------------------------------
(* The registration flow alone, with two usernames staged for one email. *)

RegUsernames == {"alice", "bob"}
RegCodes == {"111111"}

NextReg ==
    \/ \E u \in RegUsernames, e \in Emails, c \in RegCodes :
          send_otp(u, e, "registration", c)
    \/ \E e \in Emails, c \in RegCodes : resend_otp(e, "registration", c)
    \/ \E e \in Emails, c \in Codes : verify_otp(e, "registration", c)
    \/ \E e \in Emails, pw \in CreatePasswords, cpw \in CreatePasswords :
          create_password(e, pw, cpw)

SpecReg == Init /\ [][NextReg]_vars

----------------------------------------------------------------------------
(* send-otp served by two workers at once.  create_otp runs outside any       *)
(* transaction: its UPDATE and its INSERT are two statements, each committed  *)
(* on its own, and the statements of two calls interleave.                    *)

\* otp.save(): the INSERT of create_otp
InsertOtp(recs, email, purpose, validity_minutes, code, extra_data) ==
    Append(recs,
           [email |-> email, otp_code |-> code, purpose |-> purpose,
            is_verified |-> FALSE, attempts |-> 0,
            created_at |-> now, expires_at |-> now + Minutes(validity_minutes),
            verified_at |-> NULL, temp_username |-> extra_data.temp_username,
            temp_first_name |-> extra_data.temp_first_name,
            temp_last_name |-> extra_data.temp_last_name])

InFlight(procs) == {w \in Workers : procs[w].pc # "idle"}

\* send_otp up to and including the UPDATE of create_otp
send_otp_update(w, username, email, purpose, code) ==
    /\ issuers[w].pc = "idle"
    /\ Len(otp_records) + Cardinality(InFlight(issuers)) < MaxOtp
    /\ IF EmailExists(email) THEN UNCHANGED vars
       ELSE /\ otp_records' = SupersedeUnverified(otp_records, email, purpose)
            /\ failed_calls' = LiveFailures(failed_calls, otp_records')
            /\ issuers' = [issuers EXCEPT ![w] =
                              [pc |-> "updated", username |-> username,
                               email |-> email, purpose |-> purpose, code |-> code]]
            /\ UNCHANGED <<users, profiles, now, nulls_first, compared,
                           verifiers, logins, federated, consumed,
                           login_attempts, creators>>

\* send_otp from the INSERT of create_otp to the response
send_otp_insert(w) ==
    /\ issuers[w].pc = "updated"
    /\ otp_records' = InsertOtp(otp_records, issuers[w].email, issuers[w].purpose,
                                REGISTRATION_VALIDITY_MINUTES, issuers[w].code,
                                ExtraData(issuers[w].username,
                                          FirstNames[issuers[w].username],
                                          LastNames[issuers[w].username]))
    /\ failed_calls' = LiveFailures(failed_calls, otp_records')
    /\ consumed' = consumed \ {<<issuers[w].email, issuers[w].purpose>>}
    /\ issuers' = [issuers EXCEPT ![w] = Idle]
    /\ UNCHANGED <<users, profiles, now, nulls_first, compared, verifiers,
                   logins, federated, login_attempts, creators>>

NextIssue ==
    \/ Tick
    \/ \E w \in Workers, u \in Usernames, e \in Emails, p \in Purposes, c \in Codes :
          send_otp_update(w, u, e, p, c)
    \/ \E w \in Workers : send_otp_insert(w)

SpecIssue == Init /\ [][NextIssue]_vars

----------------------------------------------------------------------------
(* create-password served by two workers at once.  The handler's writes are   *)
(* made inside transaction.atomic(): they are staged, invisible to the other  *)
(* worker, and stored together when the block is left without an exception.   *)
(* auth_user.username is unique: an INSERT of a username another open         *)
(* transaction has inserted waits for that transaction to end.                *)

Running(procs) == {w \in Workers : procs[w].pc \notin {"idle", "done"}}

NoRows == [users |-> <<>>, profiles |-> <<>>]

\* The tables with the staged rows stored; a staged profile points at the
\* staged user.
Commit(tabs, staged) ==
    [users |-> tabs.users \o staged.users,
     profiles |-> tabs.profiles \o
                    [k \in DOMAIN staged.profiles |->
                        [staged.profiles[k] EXCEPT !.user = Len(tabs.users) + 1]]]

\* Faulty variant: the writes made before an exception are kept
atomic_exit_no_rollback(tabs, staged, ok) == Commit(tabs, staged)

\* Leaving the atomic block: commit, or roll back when an exception passes
\* through it.
atomic_exit(tabs, staged, ok) == IF ok THEN Commit(tabs, staged) ELSE tabs

\* Faulty variant: no unique index on the username
UsernameTakenNever(username) == FALSE

\* The unique index on auth_user.username rejects the INSERT (IntegrityError)
UsernameTaken(username) == UsernameExists(username)

\* The INSERT waits on the uncommitted row of another transaction
UsernameLocked(w, username) ==
    \E v \in Workers \ {w} :
        /\ creators[v].pc = "user"
        /\ creators[v].staged.users[1].username = username

\* The request is validated and, inside the atomic block, the verified record
\* is read; a request the serializer or the query rejects is answered at once.
create_password_begin(w, email, password, confirm_password) ==
    /\ creators[w].pc = "idle"
    /\ IF \/ ~PasswordIsStrong(password)
          \/ password # confirm_password
          \/ FirstByVerifiedAtDesc(email, "registration") = {}
       THEN UNCHANGED vars
       ELSE /\ \E r \in FirstByVerifiedAtDesc(email, "registration") :
                  creators' = [creators EXCEPT ![w] =
                                  [pc |-> "read", email |-> email,
                                   password |-> password, r |-> r,
                                   staged |-> NoRows]]
            /\ UNCHANGED <<otp_records, users, profiles, now, nulls_first,
                           compared, verifiers, logins, federated,
                           failed_calls, consumed, login_attempts, issuers>>

\* Where a call ended: its response, and the step that raised the exception.
Ended(c, outcome, step) ==
    [pc |-> "done", email |-> c.email, password |-> c.password, r |-> c.r,
     outcome |-> outcome, step |-> step]

\* The tables after worker w left the atomic block
LeaveAtomic(w, staged, ok) ==
    LET tabs == atomic_exit([users |-> users, profiles |-> profiles], staged, ok) IN
    /\ users' = tabs.users
    /\ profiles' = tabs.profiles

\* User.objects.create_user; ok: the database accepts the statement
create_password_user(w, ok) ==
    LET c == creators[w]
        username == otp_records[c.r].temp_username
        row == create_user(username, c.email, c.password)
    IN  /\ c.pc = "read"
        /\ ~UsernameLocked(w, username)
        /\ IF ok /\ ~UsernameTaken(username)
           THEN /\ creators' = [creators EXCEPT ![w].pc = "user",
                                                ![w].staged.users = <<row>>]
                /\ UNCHANGED <<users, profiles>>
           ELSE /\ creators' = [creators EXCEPT ![w] = Ended(c, "error", "user")]
                /\ LeaveAtomic(w, c.staged, FALSE)
        /\ UNCHANGED <<otp_records, now, nulls_first, compared, verifiers,
                       logins, federated, failed_calls, consumed,
                       login_attempts, issuers>>

\* UserProfile.objects.create and the end of the atomic block
create_password_profile(w, ok) ==
    LET c == creators[w]
        with_profile == [c.staged EXCEPT !.profiles = <<NewProfile(1, TRUE)>>]
    IN  /\ c.pc = "user"
        /\ IF ok
           THEN /\ creators' = [creators EXCEPT ![w] = Ended(c, "created", "")]
                /\ LeaveAtomic(w, with_profile, TRUE)
           ELSE /\ creators' = [creators EXCEPT ![w] = Ended(c, "error", "profile")]
                /\ LeaveAtomic(w, c.staged, FALSE)
        /\ UNCHANGED <<otp_records, now, nulls_first, compared, verifiers,
                       logins, federated, failed_calls, consumed,
                       login_attempts, issuers>>

NextCreate ==
    \/ \E u \in RegUsernames, e \in Emails, c \in RegCodes :
          send_otp(u, e, "registration", c)
    \/ \E e \in Emails, c \in RegCodes : verify_otp(e, "registration", c)
    \/ \E w \in Workers, e \in Emails, pw \in CreatePasswords, cpw \in CreatePasswords :
          create_password_begin(w, e, pw, cpw)
    \/ \E w \in Workers, ok \in BOOLEAN : create_password_user(w, ok)
    \/ \E w \in Workers, ok \in BOOLEAN : create_password_profile(w, ok)

SpecCreate == Init /\ [][NextCreate]_vars

----------------------------------------------------------------------------
(* Login: user_login and admin_login over the login_attempts table.  The     *)
(* accounts are those the registration flow, createsuperuser and the admin   *)
(* site leave: a registered user, a user whose profile the admin site has    *)
(* marked unverified, a superuser without a profile, a user whose profile    *)
(* the admin site has flagged as admin, and a second superuser without a     *)
(* profile, whom change_user_role can demote.                                *)

MaxLogin == 5

LOGIN_MAX_ATTEMPTS == 5
LOGIN_WINDOW_MINUTES == 15

LoginIdentifiers == {"a@x.com", "bob", "root"}
LoginPasswords == {"Str0ng!Pass", "wrong"}
Ips == {"10.0.0.1", "10.0.0.2"}

\* createsuperuser: a row of auth_user with is_staff and is_superuser set, and
\* no profile
create_superuser(username, email, password) ==
    [create_user(username, email, password) EXCEPT !.is_staff = TRUE,
                                                   !.is_superuser = TRUE]

LoginUsers ==
    <<create_user("alice", "a@x.com", "Str0ng!Pass"),
      create_user("bob", "b@x.com", "Str0ng!Pass"),
      create_superuser("root", "root@x.com", "Str0ng!Pass"),
      create_user("carol", "c@x.com", "Str0ng!Pass"),
      create_superuser("dave", "d@x.com", "Str0ng!Pass")>>

LoginProfiles ==
    <<NewProfile(1, TRUE), NewProfile(2, FALSE),
      [NewProfile(4, TRUE) EXCEPT !.is_admin_user = TRUE]>>

InitLogin ==
    /\ otp_records = <<>>
    /\ users = LoginUsers
    /\ profiles = LoginProfiles
    /\ now = 0
    /\ nulls_first = FALSE
    /\ compared = EmptyBag
    /\ verifiers = [w \in Workers |-> Idle]
    /\ logins = [w \in Workers |-> Idle]
    /\ federated = [w \in Workers |-> Idle]
    /\ failed_calls = <<>>
    /\ consumed = {}
    /\ login_attempts = EmptyBag
    /\ issuers = [w \in Workers |-> Idle]
    /\ creators = [w \in Workers |-> Idle]

\* The rows of a bag that are in S, with their copies
RowsIn(B, S) == [row \in S |-> B[row]]

\* Faulty variant: failures are counted however old they are
is_rate_limited_no_window(identifier, ip_address) ==
    LET rows == BagToSet(login_attempts)
        ip_attempts == {row \in rows : row.ip_address = ip_address /\ ~row.success}
        user_attempts == {row \in rows :
                             row.username_or_email = identifier /\ ~row.success}
    IN  \/ BagCardinality(RowsIn(login_attempts, ip_attempts)) >= LOGIN_MAX_ATTEMPTS
        \/ BagCardinality(RowsIn(login_attempts, user_attempts)) >= LOGIN_MAX_ATTEMPTS

\* LoginAttempt.is_rate_limited
is_rate_limited(identifier, ip_address) ==
    LET time_threshold == now - Minutes(LOGIN_WINDOW_MINUTES)
        rows == BagToSet(login_attempts)
        ip_attempts == {row \in rows : /\ row.ip_address = ip_address
                                       /\ ~row.success
                                       /\ row.attempted_at >= time_threshold}
        user_attempts == {row \in rows : /\ row.username_or_email = identifier
                                         /\ ~row.success
                                         /\ row.attempted_at >= time_threshold}
    IN  \/ BagCardinality(RowsIn(login_attempts, ip_attempts)) >= LOGIN_MAX_ATTEMPTS
        \/ BagCardinality(RowsIn(login_attempts, user_attempts)) >= LOGIN_MAX_ATTEMPTS

\* Faulty variant: only failed attempts are recorded
LogAttemptFailuresOnly(attempts, identifier, ip_address, success) ==
    IF success THEN attempts
    ELSE attempts (+) SetToBag({[username_or_email |-> identifier,
                                 ip_address |-> ip_address, success |-> success,
                                 attempted_at |-> now]})

\* LoginAttempt.objects.create(...)
LogAttempt(attempts, identifier, ip_address, success) ==
    attempts (+) SetToBag({[username_or_email |-> identifier,
                            ip_address |-> ip_address, success |-> success,
                            attempted_at |-> now]})

\* '@' in username_or_email, on the identifiers of the model
IsEmail(identifier) ==
    identifier \in Emails \cup {"b@x.com", "root@x.com", "c@x.com", "d@x.com"}

\* The users User.objects.get(email=...) or get(username=...) matches
UsersMatching(identifier) ==
    {i \in DOMAIN users :
        IF IsEmail(identifier) THEN users[i].email = identifier
        ELSE users[i].username = identifier}

\* django.contrib.auth.authenticate: the user of the username when the
\* password is right, 0 for None
authenticate(username, password) ==
    LET M == {i \in DOMAIN users :
                 users[i].username = username /\ users[i].password = password}
    IN  IF M = {} THEN 0 ELSE Min(M)

\* hasattr(user, 'profile'), and the profile (0 when there is none)
ProfileOf(u) ==
    LET K == {k \in DOMAIN profiles : profiles[k].user = u}
    IN  IF K = {} THEN 0 ELSE Min(K)

\* Faulty variant: the admin flag of the profile is not looked at
IsAdminNoProfileFlag(u) ==
    \/ users[u].is_staff
    \/ users[u].is_superuser

\* is_admin of user_login and admin_login
IsAdmin(u) ==
    \/ users[u].is_staff
    \/ users[u].is_superuser
    \/ (ProfileOf(u) # 0 /\ profiles[ProfileOf(u)].is_admin_user)

\* UserProfile.increment_login_count: save(update_fields=['login_count'])
\* writes the counter column only
increment_login_count(profs, p) ==
    [profs EXCEPT ![p].login_count = @ + 1]

\* profile.last_login_ip = ip_address; profile.increment_login_count().  The
\* address is assigned to the instance in memory and the only save is the one
\* of increment_login_count, so the stored last_login_ip stays as it was.
RecordLogin(u, ip_address) ==
    IF ProfileOf(u) = 0 THEN profiles
    ELSE increment_login_count(profiles, ProfileOf(u))

\* What a login call leaves and answers: the tables, the outcome, the
\* failure_reason handed to LoginAttempt.objects.create (None when no failed
\* row is written) and the message of the response
LoginResult(attempts, profs, outcome, failure_reason, message) ==
    [login_attempts |-> attempts, profiles |-> profs, outcome |-> outcome,
     failure_reason |-> failure_reason, message |-> message]

RateLimited ==
    LoginResult(login_attempts, profiles, "rate_limited", None,
                "Too many failed login attempts. Please try again later.")

\* POST login with a valid body
user_login_result(username_or_email, password, ip_address) ==
    LET found == UsersMatching(username_or_email)
        u == IF found = {} THEN 0
             ELSE authenticate(users[Min(found)].username, password)
        failed == LogAttempt(login_attempts, username_or_email, ip_address, FALSE)
    IN  IF is_rate_limited(username_or_email, ip_address) THEN RateLimited
        ELSE IF Cardinality(found) > 1
        THEN \* User.objects.get raises MultipleObjectsReturned, which nothing catches
             LoginResult(login_attempts, profiles, "error", None, None)
        ELSE IF u = 0
        THEN LoginResult(failed, profiles, "bad_credentials", "Invalid credentials",
                         "Invalid username/email or password")
        ELSE IF IsAdmin(u)
        THEN LoginResult(failed, profiles, "wrong_role",
                         "Admin user attempted user login",
                         "Admin users must login through the Admin Login section")
        ELSE IF ProfileOf(u) # 0 /\ ~profiles[ProfileOf(u)].is_email_verified
        THEN LoginResult(failed, profiles, "email_not_verified", "Email not verified",
                         "Please verify your email before logging in")
        ELSE LoginResult(LogAttempt(login_attempts, username_or_email, ip_address, TRUE),
                         RecordLogin(u, ip_address), "success", None, "Login successful")

\* POST admin-login with a valid body
admin_login_result(username, password, ip_address) ==
    LET u == authenticate(username, password)
        failed == LogAttempt(login_attempts, username, ip_address, FALSE)
    IN  IF is_rate_limited(username, ip_address) THEN RateLimited
        ELSE IF u = 0
        THEN LoginResult(failed, profiles, "bad_credentials", "Invalid credentials",
                         "Invalid username or password")
        ELSE IF ~IsAdmin(u)
        THEN LoginResult(failed, profiles, "wrong_role", "Not an admin user",
                         "You do not have admin privileges")
        ELSE LoginResult(LogAttempt(login_attempts, username, ip_address, TRUE),
                         RecordLogin(u, ip_address), "success", None,
                         "Admin login successful")

StoreLogin(res) ==
    /\ BagCardinality(res.login_attempts) <= MaxLogin
    /\ login_attempts' = res.login_attempts
    /\ profiles' = res.profiles
    /\ UNCHANGED <<otp_records, users, now, nulls_first, compared, verifiers,
                   logins, federated, failed_calls, consumed,
                   issuers, creators>>

user_login(username_or_email, password, ip_address) ==
    LET res == user_login_result(username_or_email, password, ip_address) IN
    StoreLogin(res)

admin_login(username, password, ip_address) ==
    LET res == admin_login_result(username, password, ip_address) IN
    StoreLogin(res)

\* The (identifier, source address) pairs login requests arrive with
LoginCalls ==
    {<<"a@x.com", "10.0.0.1">>, <<"a@x.com", "10.0.0.2">>,
     <<"bob", "10.0.0.1">>, <<"root", "10.0.0.2">>}

NextLogin ==
    \/ Tick
    \/ \E call \in LoginCalls, pw \in LoginPasswords :
          user_login(call[1], pw, call[2])
    \/ \E call \in LoginCalls, pw \in LoginPasswords :
          admin_login(call[1], pw, call[2])

SpecLogin == InitLogin /\ [][NextLogin]_vars

----------------------------------------------------------------------------
(* Roles: the two login channels over every kind of account, with the role   *)
(* change of the admin API.                                                  *)

\* PATCH users/<id>/role by a staff requester other than the target
change_user_role(requester, user_id, new_role) ==
    LET p == ProfileOf(user_id) IN
    /\ users[requester].is_staff
    /\ user_id # requester
    /\ users' = IF new_role = "admin"
                THEN [users EXCEPT ![user_id].is_staff = TRUE]
                ELSE [users EXCEPT ![user_id].is_staff = FALSE,
                                   ![user_id].is_superuser = FALSE]
    /\ profiles' = IF p = 0 THEN profiles
                   ELSE [profiles EXCEPT ![p].is_admin_user = (new_role = "admin")]
    /\ UNCHANGED <<otp_records, now, nulls_first, compared, verifiers, logins,
                   federated, failed_calls, consumed,
                   login_attempts, issuers, creators>>

\* The identifiers login requests carry: the usernames and emails of the
\* accounts and one that belongs to nobody
RoleIdentifiers ==
    {"alice", "a@x.com", "bob", "b@x.com", "root", "root@x.com",
     "carol", "c@x.com", "dave", "d@x.com", "ghost"}

RoleCalls ==
    {<<"a@x.com", "10.0.0.1">>, <<"bob", "10.0.0.1">>, <<"root", "10.0.0.2">>,
     <<"carol", "10.0.0.2">>, <<"dave", "10.0.0.1">>, <<"ghost", "10.0.0.2">>}

NextRoles ==
    \/ \E call \in RoleCalls, pw \in LoginPasswords :
          user_login(call[1], pw, call[2])
    \/ \E call \in RoleCalls, pw \in LoginPasswords :
          admin_login(call[1], pw, call[2])
    \/ \E role \in {"user", "admin"} : change_user_role(3, 5, role)

SpecRoles == InitLogin /\ [][NextRoles]_vars

----------------------------------------------------------------------------
(* Registration followed by logins: the accounts are the ones create_password *)
(* makes, two of them with one email included.                                *)

RegLoginCalls == {<<"a@x.com", "10.0.0.1">>, <<"ghost", "10.0.0.1">>}

NextRegLogin ==
    \/ NextReg
    \/ \E call \in RegLoginCalls, pw \in LoginPasswords :
          user_login(call[1], pw, call[2])

SpecRegLogin == Init /\ [][NextRegLogin]_vars

----------------------------------------------------------------------------
(* Federated sign-in: google_auth over GoogleAuthHandler.  A token stands for *)
(* what verify_google_token makes of it: the user information of the         *)
(* assertion, with valid false for a token Google does not vouch for         *)
(* (verify_google_token returns None).                                       *)

MaxLoginCount == 3

user_info(google_id, email, email_verified, given_name, family_name) ==
    [valid |-> TRUE, google_id |-> google_id, email |-> email, email_verified |-> email_verified,
     given_name |-> given_name, family_name |-> family_name]

GoogleTokens ==
    {user_info("g-alice", "a@x.com", TRUE, "alice", ""),
     user_info("g-alice", "b@x.com", TRUE, "alice", ""),
     user_info("g-bob", "b@x.com", TRUE, "bob", ""),
     user_info("g-root", "root@x.com", TRUE, "", ""),
     user_info("g-nina", "n@x.com", TRUE, "nina", "new"),
     user_info("g-al", "al@x.com", TRUE, "alice", ""),
     user_info("g-eve", "e@x.com", FALSE, "eve", ""),
     [user_info("g-nina", "n@x.com", TRUE, "nina", "new") EXCEPT !.valid = FALSE]}

\* email.split('@')[0], on the emails of the tokens
LocalPart(email) ==
    CASE email = "a@x.com" -> "a"
      [] email = "b@x.com" -> "b"
      [] email = "root@x.com" -> "root"
      [] email = "n@x.com" -> "n"
      [] email = "al@x.com" -> "al"
      [] OTHER -> "e"

\* base_username with counter appended, counter = 0 for the base itself
Candidate(base_username, counter) ==
    IF counter = 0 THEN base_username ELSE base_username \o ToString(counter)

\* GoogleAuthHandler._generate_username over the table us; the names of the
\* tokens are lower-case letters already
generate_username(us, first_name, last_name, email) ==
    LET joined == first_name \o last_name
        base_username == IF joined = "" THEN LocalPart(email) ELSE joined
        taken(name) == \E i \in DOMAIN us : us[i].username = name
        counter == Min({c \in 0..Len(us) : ~taken(Candidate(base_username, c))})
    IN  Candidate(base_username, counter)

\* UserProfile.objects.create(user, google_id, is_email_verified=True, ...)
NewGoogleProfile(user, google_id) ==
    [NewProfile(user, TRUE) EXCEPT !.google_id = google_id]

\* The profiles that store the external id
ProfilesOfGoogleId(google_id) ==
    {k \in DOMAIN profiles : profiles[k].google_id = google_id}

\* The accounts User.objects.get(email=email) matches
UsersOfEmail(email) == {i \in DOMAIN users : users[i].email = email}

GoogleResult(us, profs, user, created, error) ==
    [users |-> us, profiles |-> profs, user |-> user, created |-> created,
     error |-> error]

\* GoogleAuthHandler.get_or_create_user; user 0 stands for an exception, which
\* authenticate_google_user turns into its message
get_or_create_user(google_user_info) ==
    LET google_id == google_user_info.google_id
        email == google_user_info.email
        by_id == ProfilesOfGoogleId(google_id)
        by_email == UsersOfEmail(email)
        username == generate_username(users, google_user_info.given_name,
                                      google_user_info.family_name, email)
        new_users == Append(users, create_user(username, email, None))
    IN  IF by_id # {}
        THEN GoogleResult(users, profiles, profiles[Min(by_id)].user, FALSE, None)
        ELSE IF Cardinality(by_email) > 1
        THEN \* User.objects.get raises MultipleObjectsReturned
             GoogleResult(users, profiles, 0, FALSE,
                          "get() returned more than one User")
        ELSE IF by_email # {} /\ ProfileOf(Min(by_email)) = 0
        THEN \* user.profile raises RelatedObjectDoesNotExist, which is not a
             \* User.DoesNotExist
             GoogleResult(users, profiles, 0, FALSE, "User has no profile.")
        ELSE IF by_email # {}
        THEN GoogleResult(users,
                          [profiles EXCEPT ![ProfileOf(Min(by_email))].google_id = google_id,
                                           ![ProfileOf(Min(by_email))].is_email_verified = TRUE],
                          Min(by_email), FALSE, None)
        ELSE GoogleResult(new_users,
                          Append(profiles, NewGoogleProfile(Len(new_users), google_id)),
                          Len(new_users), TRUE, None)

\* GoogleAuthHandler.authenticate_google_user
authenticate_google_user(token) ==
    IF ~token.valid
    THEN GoogleResult(users, profiles, 0, FALSE, "Invalid Google token")
    ELSE IF ~token.email_verified
    THEN GoogleResult(users, profiles, 0, FALSE, "Google email not verified")
    ELSE get_or_create_user(token)

\* POST google with a valid body: the tables it leaves, the outcome, and the
\* account (0 for none) the tokens are for
google_auth_result(token, ip_address) ==
    LET res == authenticate_google_user(token)
        K == {k \in DOMAIN res.profiles : res.profiles[k].user = res.user}
    IN  IF res.error # None
        THEN [users |-> res.users, profiles |-> res.profiles, outcome |-> "rejected",
              message |-> res.error, user |-> 0, new_user |-> FALSE]
        ELSE [users |-> res.users,
              profiles |-> IF K = {} THEN res.profiles
                           ELSE increment_login_count(res.profiles, Min(K)),
              outcome |-> "success", message |-> "Google authentication successful",
              user |-> res.user, new_user |-> res.created]

google_auth(token, ip_address) ==
    LET res == google_auth_result(token, ip_address) IN
    /\ \A k \in DOMAIN res.profiles : res.profiles[k].login_count <= MaxLoginCount
    /\ users' = res.users
    /\ profiles' = res.profiles
    /\ UNCHANGED <<otp_records, now, nulls_first, compared, verifiers, logins,
                   federated, failed_calls, consumed, login_attempts, issuers,
                   creators>>

NextGoogle ==
    \E token \in GoogleTokens, ip \in Ips : google_auth(token, ip)

SpecGoogle == InitLogin /\ [][NextGoogle]_vars

----------------------------------------------------------------------------
(* Claims. *)

Pairs == Emails \X Purposes

\* The unverified record of a pair created last, 0 when it has none
NewestUnverified(email, purpose) ==
    IF UnverifiedIds(email, purpose) = {} THEN 0
    ELSE CHOOSE i \in UnverifiedIds(email, purpose) :
            \A j \in UnverifiedIds(email, purpose) : j <= i

\* Live: unverified, unexpired, attempts below the ceiling
LiveIds(email, purpose) ==
    {i \in OtpIds(email, purpose) : is_valid(otp_records[i])}

\* The responses that report an expired or exhausted record
ExpiredOrExhausted ==
    {"expired_or_max_attempts", "otp_expired", "max_attempts_exceeded"}

\* C1: after any sequence of issues (send, resend, password-reset request) and
\* verifies served one at a time, every (email, purpose) pair has at most one
\* unverified record, and so at most one live record.
C1_SupersedeInvariant ==
    \A pr \in Pairs :
        /\ Cardinality(UnverifiedIds(pr[1], pr[2])) <= 1
        /\ Cardinality(LiveIds(pr[1], pr[2])) <= 1

\* A second issue for a pair has retired the first record and left one live.
C1_Witness ==
    \E pr \in Pairs :
        /\ Cardinality(OtpIds(pr[1], pr[2])) >= 2
        /\ Cardinality(LiveIds(pr[1], pr[2])) = 1
        /\ \E i \in OtpIds(pr[1], pr[2]) :
              otp_records[i].is_verified /\ otp_records[i].verified_at = NULL

\* C2: an account exists for an email only if a verify call with the matching
\* code succeeded on a registration record of that email (verify alone sets
\* verified_at); a record only retired by a later issue does not allow it.
C2_OtpGatesAccount ==
    \A u \in DOMAIN users :
        \E i \in OtpIds(users[u].email, "registration") :
            otp_records[i].verified_at # NULL

\* C3: every verify call that finds an unverified record raises its stored
\* attempt counter by exactly 1, also when the record is expired or exhausted.
C3_AttemptCounted ==
    \A pr \in Pairs, c \in Codes :
        LET i == NewestUnverified(pr[1], pr[2]) IN
        i # 0 =>
            /\ verify_otp_result(pr[1], pr[2], c).otp_records[i].attempts
                  = otp_records[i].attempts + 1
            /\ pr[2] = "password_reset" =>
                  verify_reset_otp_result(pr[1], c).otp_records[i].attempts
                      = otp_records[i].attempts + 1

\* C4: a verify call on an unexpired, unverified record whose stored attempts
\* are below the ceiling compares the code, and a matching code succeeds and
\* marks the record verified.
C4_BelowCeilingCompares ==
    \A pr \in Pairs :
        LET i == NewestUnverified(pr[1], pr[2]) IN
        (i # 0 /\ ~is_expired(otp_records[i])
               /\ otp_records[i].attempts < max_attempts) =>
            LET res == verify_otp_result(pr[1], pr[2], otp_records[i].otp_code) IN
            res.success /\ res.otp_records[i].is_verified

\* C5: after max_attempts failed verify calls on a record, every later verify
\* call on it, with any code, fails with the expired/exhausted response and
\* leaves the record unverified.
C5_ExhaustedStaysRejected ==
    \A pr \in Pairs, c \in Codes :
        LET i == NewestUnverified(pr[1], pr[2]) IN
        (i # 0 /\ failed_calls[i] >= max_attempts) =>
            /\ LET res == verify_otp_result(pr[1], pr[2], c) IN
                  /\ ~res.success
                  /\ res.outcome \in ExpiredOrExhausted
                  /\ ~res.otp_records[i].is_verified
            /\ pr[2] = "password_reset" =>
                  LET res == verify_reset_otp_result(pr[1], c) IN
                  /\ ~res.success
                  /\ res.outcome \in ExpiredOrExhausted
                  /\ ~res.otp_records[i].is_verified

\* max_attempts verify calls have failed on a record that is not expired.
C5_Witness ==
    \E i \in DOMAIN otp_records :
        /\ ~otp_records[i].is_verified
        /\ ~is_expired(otp_records[i])
        /\ failed_calls[i] >= max_attempts

\* C6: a verify call on a record whose expiry is in the past fails and leaves
\* the record unverified, whatever its attempts and the code, on both paths.
C6_ExpiredAlwaysFails ==
    \A pr \in Pairs, c \in Codes :
        LET i == NewestUnverified(pr[1], pr[2]) IN
        (i # 0 /\ now > otp_records[i].expires_at) =>
            /\ LET res == verify_otp_result(pr[1], pr[2], c) IN
                  ~res.success /\ ~res.otp_records[i].is_verified
            /\ pr[2] = "password_reset" =>
                  LET res == verify_reset_otp_result(pr[1], c) IN
                  ~res.success /\ ~res.otp_records[i].is_verified

\* An expired password-reset record that verify calls have already failed on.
C6_Witness ==
    \E i \in DOMAIN otp_records :
        /\ otp_records[i].purpose = "password_reset"
        /\ ~otp_records[i].is_verified
        /\ now > otp_records[i].expires_at
        /\ otp_records[i].attempts > 0
        /\ failed_calls[i] > otp_records[i].attempts

\* C7: a verified record never becomes unverified again, and once a verify
\* call has succeeded for a pair no verify call for it succeeds, with any code,
\* until a new record is issued for the pair.
C7_SingleUse ==
    /\ [](\A pr \in consumed, c \in Codes :
            /\ ~verify_otp_result(pr[1], pr[2], c).success
            /\ pr[2] = "password_reset" => ~verify_reset_otp_result(pr[1], c).success)
    /\ [][\A i \in DOMAIN otp_records :
            otp_records[i].is_verified =>
                i \in DOMAIN otp_records' /\ otp_records'[i].is_verified]_vars

\* A verify call has succeeded for a pair and no record was issued since.
C7_Witness ==
    \E pr \in consumed :
        \E i \in OtpIds(pr[1], pr[2]) : otp_records[i].verified_at # NULL

\* C8: with two records issued in a row for a pair, the first unverified when
\* the second is issued, verify compares against the newest only: the first
\* record's code, when it differs, fails and verifies nothing, and the second
\* record's code, right away or after that failed call, succeeds.
C8_NewestOnly ==
    \A pr \in Pairs :
        LET n == NewestUnverified(pr[1], pr[2]) IN
        \A m \in OtpIds(pr[1], pr[2]) :
            (/\ n # 0 /\ m < n
             /\ otp_records[m].verified_at = NULL
             /\ otp_records[m].otp_code # otp_records[n].otp_code) =>
                /\ LET res == verify_otp_result(pr[1], pr[2], otp_records[m].otp_code) IN
                      /\ ~res.success
                      /\ \A k \in DOMAIN otp_records :
                            res.otp_records[k].is_verified = otp_records[k].is_verified
                /\ (~is_expired(otp_records[n]) /\ otp_records[n].attempts <= 1) =>
                      LET res == verify_otp_result(pr[1], pr[2], otp_records[n].otp_code) IN
                      /\ res.success
                      /\ res.rec = n
                      /\ res.otp_records[n].is_verified

\* The first record's code has been tried once on the second record.
C8_Witness ==
    \E pr \in Pairs :
        LET n == NewestUnverified(pr[1], pr[2]) IN
        /\ n # 0
        /\ otp_records[n].attempts = 1
        /\ ~is_expired(otp_records[n])
        /\ \E m \in OtpIds(pr[1], pr[2]) :
              /\ m < n
              /\ otp_records[m].verified_at = NULL
              /\ otp_records[m].otp_code # otp_records[n].otp_code

\* C9: a verify call for a pair with no unverified record answers "not found"
\* and leaves the whole ledger as it was.
C9_NotFoundTouchesNothing ==
    \A pr \in Pairs, c \in Codes :
        UnverifiedIds(pr[1], pr[2]) = {} =>
            /\ verify_otp_result(pr[1], pr[2], c).outcome = "not_found"
            /\ verify_otp_result(pr[1], pr[2], c).otp_records = otp_records
            /\ pr[2] = "password_reset" =>
                  /\ verify_reset_otp_result(pr[1], c).outcome = "not_found"
                  /\ verify_reset_otp_result(pr[1], c).otp_records = otp_records

\* A pair whose records are all verified, one of them by a verify call.
C9_Witness ==
    \E pr \in Pairs :
        /\ UnverifiedIds(pr[1], pr[2]) = {}
        /\ \E i \in OtpIds(pr[1], pr[2]) : otp_records[i].attempts > 0

\* C10: create_password fails and creates nothing when the email has no
\* registration record with verified=true, and a call made when an account of
\* the email exists fails and creates no further account or profile.
C10_CreateOncePerEmail ==
    \A e \in Emails, pw \in CreatePasswords, cpw \in CreatePasswords :
        \A r \in FirstOf(FirstByVerifiedAtDesc(e, "registration")) :
            LET res == create_password_result(e, pw, cpw, r) IN
            (VerifiedIds(e, "registration") = {} \/ EmailExists(e)) =>
                /\ res.outcome # "created"
                /\ res.users = users
                /\ res.profiles = profiles

\* C11: after any sequence of send-otp, resend-otp, verify-otp and
\* create-password requests, two usernames staged for one email included, no
\* two accounts have the same email.
C11_AccountEmailsUnique ==
    \A i \in DOMAIN users, j \in DOMAIN users :
        users[i].email = users[j].email => i = j

\* C12: when two send-otp calls for one (email, purpose) interleave their
\* update and insert steps in any order, the pair has at most one unverified
\* record once no call is in flight.
C12_ConcurrentIssueOneLive ==
    InFlight(issuers) = {} =>
        \A pr \in Pairs : Cardinality(UnverifiedIds(pr[1], pr[2])) <= 1

\* The create-password calls that ended with an account created
Created == {w \in Workers : creators[w].pc = "done" /\ creators[w].outcome = "created"}

\* C13: two create-password calls racing on one verified registration record
\* create at most one account and one profile between them, and the call that
\* loses fails and leaves no row: the accounts are those of the calls that
\* answered created, each with one profile.
C13_RaceCreatesOne ==
    /\ \A v \in Created, w \in Created :
          (creators[v].email = creators[w].email /\ creators[v].r = creators[w].r)
              => v = w
    /\ Running(creators) = {} =>
          /\ Len(users) = Cardinality(Created)
          /\ Len(profiles) = Cardinality(Created)

\* Both workers read the same record; one created the account, the other
\* failed on the username.
C13_Witness ==
    \E v \in Workers, w \in Workers :
        /\ v # w
        /\ creators[v].pc = "done" /\ creators[w].pc = "done"
        /\ creators[v].r = creators[w].r
        /\ creators[v].outcome = "created"
        /\ creators[w].outcome = "error" /\ creators[w].step = "user"
        /\ Len(users) = 1

\* C14: whether a create-password call succeeds or fails at any step (username
\* collision, failure while the profile is created), the stored tables hold
\* the account together with its profile or neither of them.
C14_AccountWithProfileOrNeither ==
    /\ \A u \in DOMAIN users :
          Cardinality({k \in DOMAIN profiles : profiles[k].user = u}) = 1
    /\ \A k \in DOMAIN profiles : profiles[k].user \in DOMAIN users

\* One call failed while creating the profile, after its account row was
\* written, and another call completed.
C14_Witness ==
    \E v \in Workers, w \in Workers :
        /\ creators[v].pc = "done" /\ creators[v].outcome = "error"
        /\ creators[v].step = "profile"
        /\ creators[w].pc = "done" /\ creators[w].outcome = "created"

\* The password_reset records of an email verified by a matching code, and of
\* those the ones verified last
CodeVerifiedIds(email) ==
    {i \in OtpIds(email, "password_reset") : otp_records[i].verified_at # NULL}

LastCodeVerifiedIds(email) ==
    {i \in CodeVerifiedIds(email) :
        \A j \in CodeVerifiedIds(email) :
            otp_records[j].verified_at <= otp_records[i].verified_at}

\* C15: reset-password rotates the credential only when the password_reset
\* record of the email verified last was verified by a matching code at most
\* 15 minutes ago; with no such record, with one verified longer ago, or with
\* records that were only retired, the call fails and the stored credentials
\* stay as they are.
C15_ResetNeedsFreshVerification ==
    \A e \in Emails, pw \in ResetPasswords, cpw \in ResetPasswords :
        \A r \in FirstOf(FirstByVerifiedAtDesc(e, "password_reset")) :
            LET res == reset_password_result(e, pw, cpw, r)
                fresh == \E i \in LastCodeVerifiedIds(e) :
                            now - otp_records[i].verified_at <= 15 * 60
            IN  /\ res.outcome = "reset_ok" => fresh
                /\ ~fresh => (res.outcome # "reset_ok" /\ res.users = users)
                /\ res.outcome # "reset_ok" => res.users = users

\* The credential of an account has been rotated and the verification that
\* allowed it is now more than 15 minutes old.
C15_Witness ==
    \E u \in DOMAIN users :
        /\ users[u].password \in ResetPasswords
        /\ CodeVerifiedIds(users[u].email) # {}
        /\ \A i \in CodeVerifiedIds(users[u].email) :
              now - otp_records[i].verified_at > 15 * 60

\* A reset-password call for the email would rotate the credential now
ResetWouldSucceed(email) ==
    \E pw \in ResetPasswords :
        \E r \in FirstOf(FirstByVerifiedAtDesc(email, "password_reset")) :
            reset_password_result(email, pw, pw, r).outcome = "reset_ok"

\* C16: a verified reset cannot be replayed: right after a reset-password call
\* has rotated the credential of an account, with no password_reset code
\* issued and verified since, a second reset-password call for the email fails.
C16_NoReplay ==
    [][\A u \in DOMAIN users :
          (u \in DOMAIN users' /\ users'[u].password # users[u].password)
              => ~(ResetWouldSucceed(users[u].email))']_vars

\* C17: request-password-reset for an identifier of an account with a verified
\* email, no password_reset record of the email in the last 30 seconds and
\* the message accepted for delivery, answers success and leaves a live
\* password_reset record valid for 10 minutes.
C17_ResetRequestSucceeds ==
    \A id \in Emails \cup Usernames, c \in Codes :
        LET u == FindUser(id)
            res == request_password_reset_result(id, c)
        IN  (/\ u # 0
             /\ HasVerifiedProfile(u)
             /\ \A i \in OtpIds(users[u].email, "password_reset") :
                   now - otp_records[i].created_at > 30) =>
                /\ res.outcome = "sent"
                /\ LET n == Len(res.otp_records) IN
                      /\ n = Len(otp_records) + 1
                      /\ res.otp_records[n].purpose = "password_reset"
                      /\ ~res.otp_records[n].is_verified
                      /\ res.otp_records[n].expires_at = now + 10 * 60

\* C18: while a password_reset record of the resolved email is less than 30
\* seconds old, request-password-reset answers too-soon, creates no record and
\* retires none.
C18_ResetRequestThrottled ==
    \A id \in Emails \cup Usernames, c \in Codes :
        LET u == FindUser(id)
            res == request_password_reset_result(id, c)
        IN  (/\ u # 0
             /\ HasVerifiedProfile(u)
             /\ \E i \in OtpIds(users[u].email, "password_reset") :
                   now - otp_records[i].created_at < 30) =>
                /\ res.outcome = "too_soon"
                /\ res.otp_records = otp_records

\* An account with a verified email has an unverified password_reset record
\* created at this instant.
C18_Witness ==
    \E u \in DOMAIN users :
        /\ HasVerifiedProfile(u)
        /\ \E i \in UnverifiedIds(users[u].email, "password_reset") :
              otp_records[i].created_at = now

\* The number of rows of a bag among the rows of S
RECURSIVE CopiesOf(_, _)
CopiesOf(B, S) ==
    IF S = {} THEN 0
    ELSE LET x == CHOOSE y \in S : TRUE IN B[x] + CopiesOf(B, S \ {x})

\* The failed attempts of the last 15 minutes
RecentFailures ==
    {row \in BagToSet(login_attempts) :
        ~row.success /\ now - row.attempted_at <= 15 * 60}

\* At least 5 recent failures from the address, or at least 5 for the identifier
TooManyFailures(id, ip) ==
    \/ CopiesOf(login_attempts, {row \in RecentFailures : row.ip_address = ip}) >= 5
    \/ CopiesOf(login_attempts,
                {row \in RecentFailures : row.username_or_email = id}) >= 5

\* C19: the rate limiter answers true exactly when at least 5 failed attempts
\* of the last 15 minutes come from the source address, or at least 5 are for
\* the identifier (successes and older attempts do not count); user_login and
\* admin_login answer rate-limited exactly then, whatever the password.
C19_RateLimiter ==
    \A id \in LoginIdentifiers, ip \in Ips :
        /\ is_rate_limited(id, ip) = TooManyFailures(id, ip)
        /\ \A pw \in LoginPasswords :
              /\ (user_login_result(id, pw, ip).outcome = "rate_limited")
                    = TooManyFailures(id, ip)
              /\ (admin_login_result(id, pw, ip).outcome = "rate_limited")
                    = TooManyFailures(id, ip)

\* Five recent failures from one address, none of them for the identifier of
\* an account whose right password is now refused from that address.
C19_Witness ==
    \E id \in LoginIdentifiers, ip \in Ips :
        /\ CopiesOf(login_attempts, {row \in RecentFailures : row.ip_address = ip}) >= 5
        /\ \A row \in RecentFailures : row.username_or_email # id
        /\ user_login_result(id, "Str0ng!Pass", ip).outcome = "rate_limited"
        /\ \E u \in UsersMatching(id) : ~IsAdmin(u) /\ users[u].password = "Str0ng!Pass"

\* The outcomes of a login call that are recorded
Recorded == {"success", "wrong_role", "email_not_verified", "bad_credentials"}

\* What a login call did to the attempts table: one row of the call added and
\* the rest as it was, or, for a call the rate limiter refused, nothing.
OneAttemptAdded(res, id, ip) ==
    /\ res.outcome \in Recorded =>
          /\ BagCardinality(res.login_attempts) = BagCardinality(login_attempts) + 1
          /\ login_attempts \sqsubseteq res.login_attempts
          /\ LET row == [username_or_email |-> id, ip_address |-> ip,
                         success |-> (res.outcome = "success"), attempted_at |-> now]
             IN  CopiesIn(row, res.login_attempts) = CopiesIn(row, login_attempts) + 1
    /\ res.outcome = "rate_limited" => res.login_attempts = login_attempts

\* C20: a user_login or admin_login call with a valid body adds exactly one
\* attempt row when it ends in success, wrong-role, unverified-email or
\* bad-credentials and none when the rate limiter refuses it, and no call
\* changes or removes a row that was there.
C20_OneAttemptPerCall ==
    \A id \in LoginIdentifiers, pw \in LoginPasswords, ip \in Ips :
        /\ OneAttemptAdded(user_login_result(id, pw, ip), id, ip)
        /\ OneAttemptAdded(admin_login_result(id, pw, ip), id, ip)

\* Logins have succeeded and failed, and an unverified account is about to
\* be refused.
C20_Witness ==
    /\ \E row \in BagToSet(login_attempts) : row.success
    /\ \E row \in BagToSet(login_attempts) : ~row.success
    /\ \E id \in LoginIdentifiers, ip \in Ips :
          user_login_result(id, "Str0ng!Pass", ip).outcome = "email_not_verified"

----------------------------------------------------------------------------
(* verify-otp served by two workers at once.  The view loads the record,     *)
(* OTPRecord.verify increments and tests the copy in memory, and save()      *)
(* writes every column of that copy back; no lock and no transaction ties    *)
(* the read to the write.                                                    *)

MaxCompared == 7

\* verify_otp up to the record it has loaded
verify_otp_read(w, email, purpose, otp_code) ==
    LET i == LatestUnverified(email, purpose) IN
    /\ verifiers[w].pc = "idle"
    /\ i # 0
    /\ verifiers' = [verifiers EXCEPT ![w] =
                        [pc |-> "loaded", id |-> i, otp_record |-> otp_records[i],
                         otp_code |-> otp_code]]
    /\ UNCHANGED <<otp_records, users, profiles, now, nulls_first, compared,
                   logins,
                   federated, failed_calls, consumed, login_attempts, issuers,
                   creators>>

\* verify_otp from otp_record.verify(otp_code) to the response
verify_otp_save(w) ==
    LET i == verifiers[w].id
        v == verify(verifiers[w].otp_record, verifiers[w].otp_code)
        reached_compare == v.saved
    IN  /\ verifiers[w].pc = "loaded"
        /\ reached_compare => CopiesIn(i, compared) < MaxCompared
        /\ otp_records' = IF v.saved THEN [otp_records EXCEPT ![i] = v.rec]
                          ELSE otp_records
        /\ compared' = IF reached_compare THEN compared (+) SetToBag({i})
                       ELSE compared
        /\ failed_calls' =
              LiveFailures(IF ~v.success THEN CountFailure(failed_calls, i)
                           ELSE failed_calls, otp_records')
        /\ consumed' = IF v.success
                       THEN consumed \cup {<<otp_records[i].email, otp_records[i].purpose>>}
                       ELSE consumed
        /\ verifiers' = [verifiers EXCEPT ![w] = Idle]
        /\ UNCHANGED <<users, profiles, now, nulls_first, logins, federated,
                       login_attempts, issuers, creators>>

NextVerify ==
    \/ \E u \in Usernames, e \in Emails, c \in RegCodes :
          send_otp(u, e, "registration", c)
    \/ \E w \in Workers, e \in Emails, c \in Codes :
          verify_otp_read(w, e, "registration", c)
    \/ \E w \in Workers : verify_otp_save(w)

SpecVerify == Init /\ [][NextVerify]_vars

----------------------------------------------------------------------------
(* login served by two workers at once.  authenticated_user.profile loads    *)
(* the profile row, increment_login_count adds one to the copy in memory and *)
(* save(update_fields=['login_count']) writes that number back.              *)

ConcurrentLoginCalls ==
    {<<"a@x.com", "10.0.0.1">>, <<"a@x.com", "10.0.0.2">>, <<"alice", "10.0.0.1">>}

\* user_login, for a call that passes every check, up to the profile it has
\* loaded
user_login_load(w, username_or_email, password, ip_address) ==
    LET u == authenticate(users[Min(UsersMatching(username_or_email))].username,
                          password)
    IN  /\ logins[w].pc = "idle"
        /\ user_login_result(username_or_email, password, ip_address).outcome = "success"
        /\ ProfileOf(u) # 0
        /\ logins' = [logins EXCEPT ![w] =
                         [pc |-> "loaded", username_or_email |-> username_or_email,
                          ip_address |-> ip_address, profile |-> ProfileOf(u),
                          login_count |-> profiles[ProfileOf(u)].login_count]]
        /\ UNCHANGED <<otp_records, users, profiles, now, nulls_first, compared,
                       verifiers, federated, failed_calls, consumed, login_attempts,
                       issuers, creators>>

\* user_login from increment_login_count to the response
user_login_finish(w) ==
    /\ logins[w].pc = "loaded"
    /\ BagCardinality(login_attempts) < MaxLogin
    /\ profiles' = [profiles EXCEPT ![logins[w].profile].login_count =
                                       logins[w].login_count + 1]
    /\ login_attempts' = LogAttempt(login_attempts, logins[w].username_or_email,
                                    logins[w].ip_address, TRUE)
    /\ logins' = [logins EXCEPT ![w] = Idle]
    /\ UNCHANGED <<otp_records, users, now, nulls_first, compared, verifiers,
                   federated, failed_calls, consumed, issuers, creators>>

NextLogins ==
    \/ \E w \in Workers, call \in ConcurrentLoginCalls, pw \in LoginPasswords :
          user_login_load(w, call[1], pw, call[2])
    \/ \E w \in Workers : user_login_finish(w)

SpecLogins == InitLogin /\ [][NextLogins]_vars

----------------------------------------------------------------------------
(* google served by two workers at once.  get_or_create_user runs outside    *)
(* any transaction: its lookups, the username loop, the INSERT of the user   *)
(* and the INSERT of the profile are statements of their own, and the        *)
(* statements of two calls interleave.  auth_user.username and               *)
(* user_profiles.google_id are unique columns.                               *)

ConcurrentTokens ==
    {user_info("g-nina", "n@x.com", TRUE, "nina", "new"),
     user_info("g-al", "al@x.com", TRUE, "alice", "")}

\* google_auth up to the end of the two lookups of get_or_create_user; a call
\* that finds the external id or the email runs to its response
google_auth_lookups(w, token, ip_address) ==
    /\ federated[w].pc = "idle"
    /\ IF ProfilesOfGoogleId(token.google_id) = {} /\ UsersOfEmail(token.email) = {}
       THEN /\ federated' = [federated EXCEPT ![w] = [pc |-> "looked_up", token |-> token]]
            /\ UNCHANGED <<otp_records, users, profiles, now, nulls_first,
                           compared,
                           verifiers, logins, failed_calls, consumed, login_attempts,
                           issuers, creators>>
       ELSE google_auth(token, ip_address)

\* cls._generate_username(...)
google_auth_username(w) ==
    LET token == federated[w].token IN
    /\ federated[w].pc = "looked_up"
    /\ federated' = [federated EXCEPT ![w] =
                        [pc |-> "named", token |-> token,
                         username |-> generate_username(users, token.given_name,
                                                        token.family_name, token.email)]]
    /\ UNCHANGED <<otp_records, users, profiles, now, nulls_first, compared,
                   verifiers, logins, failed_calls, consumed, login_attempts,
                   issuers, creators>>

\* User.objects.create_user(...): IntegrityError when the username has been
\* taken meanwhile, and the call answers 401
google_auth_create_user(w) ==
    LET token == federated[w].token
        username == federated[w].username
    IN  /\ federated[w].pc = "named"
        /\ IF UsernameExists(username)
           THEN /\ federated' = [federated EXCEPT ![w] = Idle]
                /\ UNCHANGED users
           ELSE /\ users' = Append(users, create_user(username, token.email, None))
                /\ federated' = [federated EXCEPT ![w] =
                                    [pc |-> "user_created", token |-> token,
                                     user |-> Len(users) + 1]]
        /\ UNCHANGED <<otp_records, profiles, now, nulls_first, compared,
                       verifiers,
                       logins, failed_calls, consumed, login_attempts, issuers,
                       creators>>

\* UserProfile.objects.create(...) to the response: IntegrityError when a
\* profile stores the external id already, and the call answers 401 with the
\* user left as inserted; otherwise the view counts the login
google_auth_create_profile(w) ==
    LET token == federated[w].token
        new_profiles == Append(profiles,
                               NewGoogleProfile(federated[w].user, token.google_id))
    IN  /\ federated[w].pc = "user_created"
        /\ profiles' = IF ProfilesOfGoogleId(token.google_id) # {} THEN profiles
                       ELSE increment_login_count(new_profiles, Len(new_profiles))
        /\ federated' = [federated EXCEPT ![w] = Idle]
        /\ UNCHANGED <<otp_records, users, now, nulls_first, compared,
                       verifiers,
                       logins, failed_calls, consumed, login_attempts, issuers,
                       creators>>

NextFederated ==
    \/ \E w \in Workers, token \in ConcurrentTokens, ip \in Ips :
          google_auth_lookups(w, token, ip)
    \/ \E w \in Workers : google_auth_username(w)
    \/ \E w \in Workers : google_auth_create_user(w)
    \/ \E w \in Workers : google_auth_create_profile(w)

SpecFederated == InitLogin /\ [][NextFederated]_vars

----------------------------------------------------------------------------
(* Claims on the login channels. *)

\* The accounts an identifier names: by username or by email
AccountsNamed(id) ==
    {u \in DOMAIN users : users[u].username = id \/ users[u].email = id}

\* An account is an admin account when it is staff, superuser or its profile
\* carries the admin flag
AdminAccount(u) ==
    \/ users[u].is_staff
    \/ users[u].is_superuser
    \/ \E k \in DOMAIN profiles : profiles[k].user = u /\ profiles[k].is_admin_user

\* C21: user_login never ends in success for an identifier that names an
\* admin account (staff, superuser or admin flag on the profile), and
\* admin_login never ends in success for one that names an account that is
\* none of these, whatever the password.
C21_ChannelSeparation ==
    \A id \in RoleIdentifiers, pw \in LoginPasswords, ip \in Ips :
        \A u \in AccountsNamed(id) :
            /\ AdminAccount(u) => user_login_result(id, pw, ip).outcome # "success"
            /\ ~AdminAccount(u) => admin_login_result(id, pw, ip).outcome # "success"

\* An admin has logged in through admin_login, and an account whose only
\* admin mark is the flag of its profile has been refused by user_login with
\* its right password.
C21_Witness ==
    /\ \E row \in BagToSet(login_attempts) :
          row.username_or_email = "root" /\ row.success
    /\ \E row \in BagToSet(login_attempts) :
          row.username_or_email = "carol" /\ ~row.success
    /\ user_login_result("carol", "Str0ng!Pass", "10.0.0.1").outcome = "wrong_role"

\* The email-verified flag of the account is set: it has a profile and the
\* profile says so
EmailVerified(u) ==
    \E k \in DOMAIN profiles : profiles[k].user = u /\ profiles[k].is_email_verified

\* The call added one failed row for the identifier and address
FailedRowAdded(res, id, ip) ==
    LET row == [username_or_email |-> id, ip_address |-> ip,
                success |-> FALSE, attempted_at |-> now]
    IN  res.login_attempts = login_attempts (+) SetToBag({row})

\* C22: user_login ends in success only for an account whose email-verified
\* flag is true; for an account without a true flag a call with the right
\* password that the rate limiter lets through is refused and writes one
\* failed attempt row.
C22_VerifiedEmailOnly ==
    \A id \in RoleIdentifiers, ip \in Ips :
        \A u \in AccountsNamed(id) :
            LET res == user_login_result(id, users[u].password, ip) IN
            /\ res.outcome = "success" => EmailVerified(u)
            /\ (~EmailVerified(u) /\ ~TooManyFailures(id, ip)) =>
                   /\ res.outcome # "success"
                   /\ FailedRowAdded(res, id, ip)

\* C23: after a user_login or admin_login that ends in success for an account
\* with a profile, the stored last_login_ip of the profile is the address of
\* the request.
C23_LastLoginIpStored ==
    \A id \in RoleIdentifiers, pw \in LoginPasswords, ip \in Ips :
        \A u \in AccountsNamed(id) :
            \A k \in {k \in DOMAIN profiles : profiles[k].user = u} :
                /\ LET res == user_login_result(id, pw, ip) IN
                      res.outcome = "success" => res.profiles[k].last_login_ip = ip
                /\ LET res == admin_login_result(id, pw, ip) IN
                      res.outcome = "success" => res.profiles[k].last_login_ip = ip

\* What a caller and the attempts table show of a login call
Observed(res, id, ip) ==
    [outcome |-> res.outcome, message |-> res.message,
     failure_reason |-> res.failure_reason,
     failed_row |-> FailedRowAdded(res, id, ip)]

\* C24: a login call with a wrong password for an identifier that names an
\* account is answered as a call for an identifier that names none is, under
\* the same rate-limit condition: same outcome, same message, and a failed
\* attempt row with the same failure reason.
C24_NoEnumeration ==
    \A id \in RoleIdentifiers, ghost \in RoleIdentifiers, ip \in Ips :
        (/\ AccountsNamed(id) # {}
         /\ AccountsNamed(ghost) = {}
         /\ TooManyFailures(id, ip) = TooManyFailures(ghost, ip)) =>
            /\ Observed(user_login_result(id, "wrong", ip), id, ip)
                  = Observed(user_login_result(ghost, "wrong", ip), ghost, ip)
            /\ Observed(admin_login_result(id, "wrong", ip), id, ip)
                  = Observed(admin_login_result(ghost, "wrong", ip), ghost, ip)

----------------------------------------------------------------------------
(* Claims on resend. *)

\* The most recently created record of the pair
NewestRecord(e, p) ==
    CHOOSE i \in OtpIds(e, p) :
        \A j \in OtpIds(e, p) :
            \/ otp_records[j].created_at < otp_records[i].created_at
            \/ (otp_records[j].created_at = otp_records[i].created_at /\ j <= i)

\* C25: resend_otp for a pair with an earlier record leaves one more record,
\* live (unverified, no attempts, five minutes to run), that carries the
\* staged username, first name and last name of the most recently created
\* earlier record of the pair, and no earlier record of the pair is left
\* unverified; for a pair with no record it answers that there was no
\* previous request and creates nothing.
C25_ResendCarriesStagedData ==
    \A e \in Emails, p \in Purposes, c \in Codes, delivered \in BOOLEAN :
        LET res == resend_otp_result(e, p, c, delivered)
            n == Len(res.otp_records)
        IN  IF OtpIds(e, p) = {}
            THEN res.outcome = "no_previous_otp" /\ res.otp_records = otp_records
            ELSE LET prev == otp_records[NewestRecord(e, p)]
                     new == res.otp_records[n]
                 IN  /\ res.outcome = (IF delivered THEN "sent" ELSE "send_failed")
                     /\ n = Len(otp_records) + 1
                     /\ new.email = e /\ new.purpose = p /\ new.otp_code = c
                     /\ ~new.is_verified /\ new.attempts = 0
                     /\ new.expires_at = now + 5 * 60
                     /\ new.temp_username = prev.temp_username
                     /\ new.temp_first_name = prev.temp_first_name
                     /\ new.temp_last_name = prev.temp_last_name
                     /\ \A i \in OtpIds(e, p) : res.otp_records[i].is_verified
                     /\ \A i \in DOMAIN otp_records \ OtpIds(e, p) :
                           res.otp_records[i] = otp_records[i]

\* Two usernames have been staged for one email, the later one while the
\* earlier record was unverified, and a resend is about to be answered.
C25_Witness ==
    \E e \in Emails :
        /\ Len(otp_records) = 2
        /\ OtpIds(e, "registration") = {1, 2}
        /\ otp_records[1].temp_username # otp_records[2].temp_username
        /\ otp_records[1].is_verified /\ otp_records[1].verified_at = NULL
        /\ ~otp_records[2].is_verified
        /\ resend_otp_result(e, "registration", "111111", TRUE).outcome = "sent"

----------------------------------------------------------------------------
(* Claims on federated sign-in. *)

\* The profiles of an account in a profile table
ProfilesIn(profs, u) == {k \in DOMAIN profs : profs[k].user = u}

\* The account has a profile that stores the external id with the email marked
\* verified
LinkedTo(profs, u, google_id) ==
    \E k \in ProfilesIn(profs, u) :
        profs[k].google_id = google_id /\ profs[k].is_email_verified

\* C26: google_auth with an assertion whose email the issuer has verified
\* answers for the account whose profile stores the external id, when there
\* is one, and changes no link; otherwise, when an account has the email of
\* the assertion, it answers for that account, whose profile then stores the
\* external id with the email marked verified; only when neither exists does
\* it add an account and a profile.  With an unverified email it is rejected
\* and nothing changes.
C26_ResolutionOrder ==
    \A token \in {t \in GoogleTokens : t.valid}, ip \in Ips :
        LET res == google_auth_result(token, ip)
            by_id == {profiles[k].user : k \in ProfilesOfGoogleId(token.google_id)}
            by_email == {u \in DOMAIN users : users[u].email = token.email}
        IN  IF ~token.email_verified
            THEN /\ res.outcome = "rejected"
                 /\ res.users = users /\ res.profiles = profiles
            ELSE IF by_id # {}
            THEN /\ res.outcome = "success" /\ res.user \in by_id
                 /\ res.users = users
                 /\ DOMAIN res.profiles = DOMAIN profiles
                 /\ \A k \in DOMAIN profiles :
                       /\ res.profiles[k].user = profiles[k].user
                       /\ res.profiles[k].google_id = profiles[k].google_id
                       /\ res.profiles[k].is_email_verified = profiles[k].is_email_verified
            ELSE IF by_email # {}
            THEN /\ res.outcome = "success" /\ res.user \in by_email
                 /\ res.users = users
                 /\ LinkedTo(res.profiles, res.user, token.google_id)
            ELSE /\ res.outcome = "success" /\ res.new_user
                 /\ Len(res.users) = Len(users) + 1
                 /\ res.user = Len(res.users)
                 /\ res.users[res.user].email = token.email
                 /\ Len(res.profiles) = Len(profiles) + 1
                 /\ LinkedTo(res.profiles, res.user, token.google_id)

\* C27: google_auth with a verified assertion whose external id no profile
\* stores and whose email is that of an account without a profile succeeds
\* and leaves that account with a profile that stores the external id, with
\* the email marked verified.
C27_LazyProfile ==
    \A token \in {t \in GoogleTokens : t.valid /\ t.email_verified}, ip \in Ips :
        \A u \in DOMAIN users :
            (/\ ProfilesOfGoogleId(token.google_id) = {}
             /\ users[u].email = token.email
             /\ ProfilesIn(profiles, u) = {}) =>
                LET res == google_auth_result(token, ip) IN
                /\ res.outcome = "success" /\ res.user = u
                /\ ProfilesIn(res.profiles, u) # {}
                /\ LinkedTo(res.profiles, u, token.google_id)

----------------------------------------------------------------------------
(* Claims on concurrent calls. *)

\* C28: however verify calls for one record interleave their read, their
\* increment and their save, the calls that compare a submitted code with the
\* record are never more than its max_attempts.
C28_CeilingUnderConcurrency ==
    \A i \in DOMAIN otp_records : CopiesIn(i, compared) <= 5

\* The successful logins recorded for an account
SuccessfulLogins(u) ==
    CopiesOf(login_attempts,
             {row \in BagToSet(login_attempts) :
                 /\ row.success
                 /\ row.username_or_email \in {users[u].username, users[u].email}})

\* C29: once the login calls in flight have answered, the stored login_count
\* of a profile (0 at the start) is the number of successful logins to its
\* account, however the calls interleaved.
C29_LoginCountExact ==
    (\A w \in Workers : logins[w].pc = "idle") =>
        \A k \in DOMAIN profiles :
            profiles[k].login_count = SuccessfulLogins(profiles[k].user)

\* The accounts the federated path has created: create_user without a
\* password
FederatedAccounts == {u \in DOMAIN users : users[u].password = None}

\* C30: google_auth calls that carry the same assertion for an identity with
\* no account create one account between them, however they interleave, and
\* once the calls in flight have answered every account the federated path
\* has created has a profile.
C30_OneFederatedAccount ==
    /\ \A token \in ConcurrentTokens :
          Cardinality({u \in FederatedAccounts : users[u].email = token.email}) <= 1
    /\ (\A w \in Workers : federated[w].pc = "idle") =>
          \A u \in FederatedAccounts : ProfilesIn(profiles, u) # {}

====
